---- MODULE Spec2Model ----
(***************************************************************************)
(* The speech-analysis server of src/server/index.js: startup (API key     *)
(* check), GET /health, and the POST /api/analyze handler driving the      *)
(* transcription provider through upload -> create job -> poll loop, the   *)
(* analysis of the completed transcript, the error mapping of the catch    *)
(* block and the cleanup of the temporary file in the finally block.       *)
(*                                                                         *)
(* Node runs a handler to the next await without interruption, so one      *)
(* action is one such segment: it starts when the awaited provider call    *)
(* (or the 3 s timer) settles and ends at the next await or when the       *)
(* handler returns; catch and finally are synchronous and belong to the    *)
(* segment in which the error is thrown.                                   *)
(*                                                                         *)
(* Texts are tuples of one-character strings; error messages are tuples of *)
(* lexical tokens (words, blanks, punctuation), so that String.includes is *)
(* computed, not assumed.                                                  *)
(***************************************************************************)
EXTENDS Integers, Sequences, FiniteSets, TLC

\* ---------------------------------------------------------------- bounds

\* Number of POST /api/analyze requests that may arrive (and overlap).
NumRequests == 2

\* Longest transcript, in characters, of the analysis specification.
MaxLen == 5

\* Longest audio_duration, in seconds, of the analysis specification.
MaxDuration == 9

\* Most gaps between words in the transcripts that probe the pause thresholds.
MaxGaps == 2

\* Most words of a phrase drawn from the vocabulary.
MaxPhrase == 3

\* Most gaps, and most filler words, of the speeches that probe the
\* pause/filler suggestion.
MaxPauses == 6
MaxFillers == 10

\* Most words of the speeches that probe the pacing thresholds.
MaxSpoken == 25

\* Number of recordings the user of the capture client may start.
MaxTakes == 2

\* Seconds the client's recording timer counts up to.
MaxTime == 2

\* ------------------------------------------------------ program constants

maxPolls == 20

Requests == 1..NumRequests

\* ------------------------------------------------------------------ text

IsSpace(c) == c \in {" ", "\t", "\n"}

RECURSIVE TrimStart(_)
TrimStart(s) ==
    IF s # <<>> /\ IsSpace(Head(s)) THEN TrimStart(Tail(s)) ELSE s

RECURSIVE TrimEnd(_)
TrimEnd(s) ==
    IF s # <<>> /\ IsSpace(s[Len(s)]) THEN TrimEnd(SubSeq(s, 1, Len(s) - 1)) ELSE s

\* A mutant of trim: the key is taken as it stands.
trimMissing(s) == s

\* String.prototype.trim
trim(s) == TrimEnd(TrimStart(s))

\* String.prototype.includes, on token tuples
includes(msg, pat) ==
    \E i \in 1..(Len(msg) - Len(pat) + 1) : SubSeq(msg, i, i + Len(pat) - 1) = pat

\* ------------------------------------------------- analysis (handler step 4)

Lower == <<"a","b","c","d","e","f","g","h","i","j","k","l","m",
           "n","o","p","q","r","s","t","u","v","w","x","y","z">>
Upper == <<"A","B","C","D","E","F","G","H","I","J","K","L","M",
           "N","O","P","Q","R","S","T","U","V","W","X","Y","Z">>
Digits == {"0","1","2","3","4","5","6","7","8","9"}

\* the regular expression class \w
IsWordChar(c) ==
    \/ \E i \in 1..Len(Lower) : c = Lower[i] \/ c = Upper[i]
    \/ c \in Digits \cup {"_"}

\* case folding of the regular expression flag i
Fold(c) ==
    IF \E i \in 1..Len(Upper) : c = Upper[i]
    THEN Lower[CHOOSE i \in 1..Len(Upper) : c = Upper[i]]
    ELSE c

\* transcriptText.split(/\s+/): the pieces between maximal whitespace runs, the
\* empty pieces at either end included (''.split gives ['']).
RECURSIVE SplitFrom(_, _, _, _)
SplitFrom(s, i, cur, acc) ==
    IF i > Len(s) THEN Append(acc, cur)
    ELSE IF IsSpace(s[i])
         THEN LET rest == {j \in (i + 1)..Len(s) : ~IsSpace(s[j])}
                  next == IF rest = {} THEN Len(s) + 1
                          ELSE CHOOSE j \in rest : \A k \in rest : j <= k
              IN  SplitFrom(s, next, <<>>, Append(acc, cur))
         ELSE SplitFrom(s, i + 1, Append(cur, s[i]), acc)

split(s) == SplitFrom(s, 1, <<>>, <<>>)

NonEmpty(word) == Len(word) > 0

\* A mutant of the word filter: empty pieces are counted too.
wordsUnfiltered(transcriptText) == split(transcriptText)

\* words = transcriptText.split(/\s+/).filter(word => word.length > 0)
words(transcriptText) == SelectSeq(split(transcriptText), NonEmpty)

wordCount(transcriptText) == Len(words(transcriptText))

\* Numbers that are not integers are fractions num/den with den > 0.
Frac(n, d) == [num |-> n, den |-> d]

\* A mutant of Math.round: the fraction is cut off (Math.floor).
MathFloor(q) == q.num \div q.den

\* Math.round: the nearest integer, a tie going up
MathRound(q) == (2 * q.num + q.den) \div (2 * q.den)

\* A mutant of the conversion to minutes: the duration is left in seconds.
audioDurationInSeconds(audio_duration) ==
    IF audio_duration < 0 THEN Frac(0, 1) ELSE Frac(audio_duration, 1)

\* audioDuration = transcriptData.audio_duration / 60, in minutes; a null
\* audio_duration (written -1 here) divides to 0.
audioDuration(audio_duration) ==
    IF audio_duration < 0 THEN Frac(0, 60) ELSE Frac(audio_duration, 60)

\* wordsPerMinute = audioDuration > 0 ? Math.round(wordCount / audioDuration) : 0
wordsPerMinute(count, minutes) ==
    IF minutes.num > 0
    THEN MathRound(Frac(count * minutes.den, minutes.num))
    ELSE 0

fillerWordsList ==
    << <<"u","m">>, <<"u","h">>, <<"l","i","k","e">>, <<"s","o">>,
       <<"y","o","u"," ","k","n","o","w">>,
       <<"a","c","t","u","a","l","l","y">>,
       <<"b","a","s","i","c","a","l","l","y">>,
       <<"a","h","h">>, <<"u","m","m","m","m">>, <<"u","h","h","h","h">> >>

\* A mutant of \b: it matches anywhere.
noBoundary(s, p) == TRUE

\* \b at the gap before position p: exactly one of the two neighbours is a \w
WordBoundary(s, p) ==
    LET before == p > 1 /\ p - 1 <= Len(s) /\ IsWordChar(s[p - 1])
        after  == p >= 1 /\ p <= Len(s) /\ IsWordChar(s[p])
    IN  before # after

\* new RegExp(`\\b${filler}\\b`, 'gi') matches at position i
MatchesAt(s, filler, i) ==
    /\ i + Len(filler) - 1 <= Len(s)
    /\ \A k \in 1..Len(filler) : Fold(s[i + k - 1]) = Fold(filler[k])
    /\ WordBoundary(s, i)
    /\ WordBoundary(s, i + Len(filler))

\* transcriptText.match(regex): the matches found left to right, each search
\* starting where the previous match ended
RECURSIVE MatchCount(_, _, _)
MatchCount(s, filler, i) ==
    IF i > Len(s) THEN 0
    ELSE IF MatchesAt(s, filler, i)
         THEN 1 + MatchCount(s, filler, i + Len(filler))
         ELSE MatchCount(s, filler, i + 1)

RECURSIVE FillerSum(_, _)
FillerSum(s, k) ==
    IF k = 0 THEN 0
    ELSE FillerSum(s, k - 1) + MatchCount(s, fillerWordsList[k], 1)

fillerWordCount(transcriptText) == FillerSum(transcriptText, Len(fillerWordsList))

\* A mutant of the pacing thresholds: 160 is already too fast.
pacingSuggestionFastAt160(wpm) ==
    IF wpm >= 160
    THEN "Your pace is quite fast. Try speaking a bit more slowly to ensure your audience can follow along."
    ELSE IF wpm < 130
         THEN "Your pace is a little slow. Try speaking a bit faster to keep your audience engaged."
         ELSE "Your pacing is excellent! It's right in the ideal range for presentations."

pacingSuggestion(wpm) ==
    IF wpm > 160
    THEN "Your pace is quite fast. Try speaking a bit more slowly to ensure your audience can follow along."
    ELSE IF wpm < 130
         THEN "Your pace is a little slow. Try speaking a bit faster to keep your audience engaged."
         ELSE "Your pacing is excellent! It's right in the ideal range for presentations."

\* A word entry's start and end are numbers in tenths (35 is 3.5), or are not
\* numbers at all (numeric = FALSE: missing, null, a string).
Num(tenths) == [numeric |-> TRUE, tenths |-> tenths]
NotANumber == [numeric |-> FALSE, tenths |-> 0]

\* A mutant of the normalisation: every gap is read as seconds.
pauseAlwaysSeconds(diffTenths) == diffTenths > 2 * 10

\* pauseSeconds = diff > 100 ? diff / 1000 : diff;  pauseSeconds > 2.0
isLongPause(diffTenths) ==
    IF diffTenths > 100 * 10
    THEN diffTenths > 2 * 1000 * 10
    ELSE diffTenths > 2 * 10

RECURSIVE PausesUpTo(_, _)
PausesUpTo(ws, i) ==
    IF i < 2 THEN 0
    ELSE PausesUpTo(ws, i - 1) +
         (LET prevEnd   == ws[i - 1].end
              currStart == ws[i].start
          IN  IF prevEnd.numeric /\ currStart.numeric
                 /\ isLongPause(currStart.tenths - prevEnd.tenths)
              THEN 1 ELSE 0)

longPauseCount(wordsWithTimestamps) ==
    PausesUpTo(wordsWithTimestamps, Len(wordsWithTimestamps))

\* A mutant of the suggestion: the filler check comes first.
pauseSuggestionFillersFirst(pauses, fillers) ==
    IF fillers > 5
    THEN [text  |-> "You used ${fillerWordCount} filler words. Practice your speech to reduce reliance on words like 'um' and 'like'.",
          count |-> fillers]
    ELSE IF pauses > 3
         THEN [text  |-> "You paused for over 2 seconds ${longPauseCount} times. Try to make your transitions between sentences smoother.",
               count |-> pauses]
         ELSE [text  |-> "Great job on maintaining a smooth flow with minimal long pauses!",
               count |-> 0]

\* The template's text with the count it cites (0 where it cites none).
pauseSuggestion(pauses, fillers) ==
    IF pauses > 3
    THEN [text  |-> "You paused for over 2 seconds ${longPauseCount} times. Try to make your transitions between sentences smoother.",
          count |-> pauses]
    ELSE IF fillers > 5
         THEN [text  |-> "You used ${fillerWordCount} filler words. Practice your speech to reduce reliance on words like 'um' and 'like'.",
               count |-> fillers]
         ELSE [text  |-> "Great job on maintaining a smooth flow with minimal long pauses!",
               count |-> 0]

\* Everything step 4 computes from the completed transcript.
analyze(data) ==
    LET wpm     == wordsPerMinute(wordCount(data.text), audioDuration(data.audio_duration))
        fillers == fillerWordCount(data.text)
        pauses  == longPauseCount(data.words)
    IN  [transcript      |-> data.text,
         wordCount       |-> wordCount(data.text),
         wordsPerMinute  |-> wpm,
         fillerWordCount |-> fillers,
         longPauseCount  |-> pauses,
         pacing          |-> pacingSuggestion(wpm),
         pauses          |-> pauseSuggestion(pauses, fillers)]

\* ------------------------------------------------------- errors, responses

\* An Error object: its message, and error.response.status (0 when the error
\* carries no HTTP response).
Error(message, status) == [message |-> message, status |-> status]

\* What readFileSync throws (Node's text: code, colon, description, syscall).
ReadErrors ==
    { Error(<<"EACCES", ":", " ", "permission", " ", "denied", ",", " ", "open">>, 0),
      Error(<<"ETIMEDOUT", ":", " ", "connection", " ", "timed", " ", "out", ",", " ", "read">>, 0) }

\* What a provider call rejects with: the provider answered 401 or 500, or
\* the connection failed and there is no answer.
ProviderErrors ==
    { Error(<<"Request", " ", "failed", " ", "with", " ", "status", " ", "code", " ", "401">>, 401),
      Error(<<"Request", " ", "failed", " ", "with", " ", "status", " ", "code", " ", "500">>, 500),
      Error(<<"connect", " ", "ECONNREFUSED">>, 0) }

\* The provider's error text of a job whose status is 'error'.
JobErrors ==
    { <<"Audio", " ", "file", " ", "is", " ", "corrupt">>,
      <<"Download", " ", "of", " ", "audio", " ", "timed", " ", "out">> }

\* new Error(`Transcription failed: ${transcriptData.error}`)
TranscriptionFailed(detail) ==
    Error(<<"Transcription", " ", "failed", ":", " ">> \o detail, 0)

\* new Error('Transcription timed out after 60 seconds')
TranscriptionTimedOut ==
    Error(<<"Transcription", " ", "timed", " ", "out", " ", "after", " ", "60", " ", "seconds">>, 0)

\* The answer of GET /transcript/{id}.
NoData == [status |-> "none", text |-> <<>>, audio_duration |-> -1, words |-> <<>>, error |-> <<>>]
Pending(status) == [NoData EXCEPT !.status = status]
Failed(detail) == [NoData EXCEPT !.status = "error", !.error = detail]
Completed(text, seconds, ws) ==
    [NoData EXCEPT !.status = "completed", !.text = text, !.audio_duration = seconds, !.words = ws]

Word(start, end) == [start |-> start, end |-> end]

\* The completed transcripts the provider answers with in Spec.
Transcripts ==
    { Completed(<<"s","o"," ","a">>, 1, << Word(Num(0), Num(5)), Word(Num(8), Num(12)) >>),
      Completed(<<>>, -1, <<>>) }

PollAnswers ==
    {Pending("queued"), Pending("processing")}
        \cup {Failed(detail) : detail \in JobErrors} \cup Transcripts

\* The catch block's choice of the message sent to the client.
errorMessage(error) ==
    IF includes(error.message, <<"Transcription", " ", "failed">>)
    THEN "Speech transcription failed. Please try again."
    ELSE IF includes(error.message, <<"timed", " ", "out">>)
         THEN "Analysis timed out. Please try with a shorter recording."
         ELSE IF error.status = 401
              THEN "API authentication failed. Please check server configuration."
              ELSE "An error occurred during analysis."

\* res.status(400).json({ error: 'No file uploaded.' })
noFileResponse == [status |-> 400, body |-> [error |-> "No file uploaded."]]

\* A mutant of the 500 response: details is sent whatever NODE_ENV is.
errorResponseWithDetails(error, NODE_ENV) ==
    [status |-> 500,
     body   |-> [error |-> errorMessage(error), details |-> error.message]]

\* res.status(500).json({ error, details }): details is left out when undefined
errorResponse(error, NODE_ENV) ==
    [status |-> 500,
     body   |-> IF NODE_ENV = "development"
                THEN [error |-> errorMessage(error), details |-> error.message]
                ELSE [error |-> errorMessage(error)]]

\* res.json({ message, transcript, wordsPerMinute, fillerWordCount, suggestions })
successResponse(data) ==
    LET a == analyze(data)
    IN  [status |-> 200,
         body   |-> [message         |-> "Analysis complete!",
                     transcript      |-> a.transcript,
                     wordsPerMinute  |-> a.wordsPerMinute,
                     fillerWordCount |-> a.fillerWordCount,
                     suggestions     |-> [pacing |-> a.pacing, pauses |-> a.pauses]]]

\* ----------------------------------------------------------------- state

VARIABLES
    env,            \* process.env: ASSEMBLYAI_API_KEY and NODE_ENV
    server,         \* "starting", "listening" or "exited"
    apiKey,         \* the module's apiKey constant, once it is read
    health,         \* the apiKey field of the last GET /health answer
    files,          \* the temporary files that exist under uploads/
    nextJob,        \* the provider: the id its next transcription job gets
    jobOf,          \* the provider: the job it created for each request (0: none)
    pc,             \* where each request's handler is suspended
    file,           \* req.file.path of each request (0: no file attached)
    pollCount,      \* the handler's local pollCount
    transcriptId,   \* the handler's local transcriptId (0: not yet known)
    transcriptData, \* the handler's local transcriptData
    pollUrl,        \* the job id in the path of the request's last GET
    sent,           \* the responses each request has been sent, in order
    outcome,        \* how each request's try block ended
    caught,         \* the error each request's catch block caught, if any
    unlinkFailed,   \* whether unlinkSync threw in the request's finally block
    uploads,        \* POST /upload calls each request has made
    creations,      \* POST /transcript calls each request has made
    polls,          \* GET /transcript/{id} calls the request's loop has made so far
    sample,         \* analysis specification: the completed transcript
    result          \* analysis specification: what step 4 computed from it

\* The capture client of src/client/src/App.js. A take is one call of
\* startRecording with the recorder, the upload and the response it leads to.
VARIABLES
    isRecording,      \* the state isRecording
    statusText,       \* the state statusText
    analysisResult,   \* the state analysisResult: 0 for null, else the take analysed
    recordingTime,    \* the state recordingTime
    mediaRecorderRef, \* mediaRecorderRef.current: 0 for null, else the take's recorder
    take,             \* where each take's chain of callbacks is suspended
    response          \* the response each take's fetch resolved with

clientVars == <<isRecording, statusText, analysisResult, recordingTime,
                mediaRecorderRef, take, response>>

serverVars == <<env, server, apiKey, health, files, nextJob, jobOf, pc, file, pollCount,
                transcriptId, transcriptData, pollUrl, sent, outcome, caught,
                unlinkFailed, uploads, creations, polls, sample, result>>

vars == <<serverVars, clientVars>>

Takes == 1..MaxTakes

\* useState('Click the button to start recording.')
StatusInitial == <<"Click", " ", "the", " ", "button", " ", "to", " ", "start", " ", "recording", ".">>

NoResponse == [ok |-> FALSE, status |-> 0, error |-> <<>>]

\* The state of the component when it is mounted.
ClientIdle ==
    /\ isRecording = FALSE
    /\ statusText = StatusInitial
    /\ analysisResult = 0
    /\ recordingTime = 0
    /\ mediaRecorderRef = 0
    /\ take = [t \in Takes |-> "none"]
    /\ response = [t \in Takes |-> NoResponse]

\* ASSEMBLYAI_API_KEY: not set, empty, blank, or a key with blanks around it.
ApiKeys ==
    { [set |-> FALSE, value |-> <<>>],
      [set |-> TRUE,  value |-> <<>>],
      [set |-> TRUE,  value |-> <<" ", "\t">>],
      [set |-> TRUE,  value |-> <<" ", "k", "e", "y", "\n">>] }

NodeEnvs == {"unset", "development", "production"}

NoAnalysis == [pending |-> TRUE]

NoError == Error(<<>>, 0)

Idle ==
    /\ files = {}
    /\ nextJob = 1
    /\ jobOf = [r \in Requests |-> 0]
    /\ pc = [r \in Requests |-> "idle"]
    /\ file = [r \in Requests |-> 0]
    /\ pollCount = [r \in Requests |-> 0]
    /\ transcriptId = [r \in Requests |-> 0]
    /\ transcriptData = [r \in Requests |-> NoData]
    /\ pollUrl = [r \in Requests |-> 0]
    /\ sent = [r \in Requests |-> <<>>]
    /\ outcome = [r \in Requests |-> "none"]
    /\ caught = [r \in Requests |-> NoError]
    /\ unlinkFailed = [r \in Requests |-> FALSE]
    /\ uploads = [r \in Requests |-> 0]
    /\ creations = [r \in Requests |-> 0]
    /\ polls = [r \in Requests |-> 0]

Init ==
    /\ env \in [ASSEMBLYAI_API_KEY : ApiKeys, NODE_ENV : NodeEnvs]
    /\ server = "starting"
    /\ apiKey = <<>>
    /\ health = "none"
    /\ Idle
    /\ sample = NoData
    /\ result = NoAnalysis
    /\ ClientIdle

\* ------------------------------------------------------- startup, /health

\* process.env.ASSEMBLYAI_API_KEY?.trim(); undefined is written <<>>, which
\* is as falsy as the empty string.
readApiKey(variable) == IF variable.set THEN trim(variable.value) ELSE <<>>

\* The module's top level: exit when the key is missing, else listen.
Startup ==
    /\ server = "starting"
    /\ apiKey' = readApiKey(env.ASSEMBLYAI_API_KEY)
    /\ server' = IF apiKey' = <<>> THEN "exited" ELSE "listening"
    /\ UNCHANGED <<env, health, files, nextJob, jobOf, pc, file, pollCount,
                   transcriptId, transcriptData, pollUrl, sent, outcome, caught,
                   unlinkFailed, uploads, creations, polls, sample, result, clientVars>>

\* app.get('/health')
Health ==
    /\ server = "listening"
    /\ health' = IF apiKey # <<>> THEN "Set" ELSE "Not set"
    /\ UNCHANGED <<env, server, apiKey, files, nextJob, jobOf, pc, file, pollCount,
                   transcriptId, transcriptData, pollUrl, sent, outcome, caught,
                   unlinkFailed, uploads, creations, polls, sample, result, clientVars>>

\* ------------------------------------------------------ POST /api/analyze

\* A mutant of the upload destination: one fixed file name for every upload.
multerFixedPath(r) == 1

\* multer({ dest: 'uploads/' }): a random file name of its own for every upload
multerPath(r) == r

\* A mutant of the file check: the handler goes on without a file.
fileCheckMissing(f) == FALSE

\* !req.file
noFile(f) == f = 0

\* A mutant of the loop condition: one iteration too many.
loopContinuesOffByOne(count) == count <= maxPolls

\* while (pollCount < maxPolls)
loopContinues(count) == count < maxPolls

\* A mutant of the check after the loop: it is left out.
timedOutUnchecked(count) == FALSE

\* A mutant of the check after the loop: the last poll's answer comes too late.
timedOutOnePollEarly(count) == count >= maxPolls - 1

\* if (pollCount >= maxPolls) throw ...
timedOut(count) == count >= maxPolls

\* A mutant of the job id: a variable shared by all requests holds the id of
\* the job created last.
transcriptIdShared(r) == nextJob - 1

\* the handler's own const transcriptId, read when the poll's URL is built
transcriptIdOf(r) == transcriptId[r]

\* A mutant of the catch block: the error is logged and nothing is sent.
catchSilent(error) == <<>>

\* The catch block: what it sends.
catchBlock(error) == <<errorResponse(error, env.NODE_ENV)>>

\* A mutant of the finally block: the file is left where it is.
finallyNothing(fs, filePath, unlinkThrows) == fs

\* The finally block: uploads/ after it. unlinkSync may throw; that is caught
\* and logged.
finallyBlock(fs, filePath, unlinkThrows) ==
    IF filePath \in fs /\ ~unlinkThrows THEN fs \ {filePath} ELSE fs

\* A mutant of the finally block: a failed deletion is answered with a 500.
finallySendsOnFailure(fs, filePath, unlinkThrows) ==
    IF filePath \in fs /\ unlinkThrows
    THEN <<[status |-> 500, body |-> [error |-> "An error occurred during analysis."]]>>
    ELSE <<>>

\* The finally block: what it sends. The error of unlinkSync is caught inside
\* the block and logged with console.error; res is not touched.
finallySends(fs, filePath, unlinkThrows) == <<>>

\* The handler leaves its try block having sent `responses`, runs the finally
\* block and returns; its locals are gone.
Exit(r, responses, how, error, unlinkThrows) ==
    /\ sent' = [sent EXCEPT ![r] = sent[r] \o responses
                                        \o finallySends(files, file[r], unlinkThrows)]
    /\ files' = finallyBlock(files, file[r], unlinkThrows)
    /\ unlinkFailed' = [unlinkFailed EXCEPT ![r] = unlinkThrows /\ file[r] \in files]
    /\ outcome' = [outcome EXCEPT ![r] = how]
    /\ caught' = [caught EXCEPT ![r] = error]
    /\ pc' = [pc EXCEPT ![r] = "done"]
    /\ pollCount' = [pollCount EXCEPT ![r] = 0]
    /\ transcriptId' = [transcriptId EXCEPT ![r] = 0]
    /\ transcriptData' = [transcriptData EXCEPT ![r] = NoData]
    /\ pollUrl' = [pollUrl EXCEPT ![r] = 0]
    /\ polls' = [polls EXCEPT ![r] = 0]
    /\ UNCHANGED <<env, server, apiKey, health, nextJob, jobOf, file,
                   uploads, creations, sample, result, clientVars>>

\* An error thrown inside the try block: catch, then finally.
Throw(r, error, how, unlinkThrows) ==
    Exit(r, catchBlock(error), how, error, unlinkThrows)

\* The code after the loop: the timeout check, then step 4 and the answer.
AfterLoop(r, count, data, how, unlinkThrows) ==
    IF timedOut(count)
    THEN Throw(r, TranscriptionTimedOut, how, unlinkThrows)
    ELSE Exit(r, <<successResponse(data)>>, how, NoError, unlinkThrows)

\* upload.single('audio'): the middleware stores the uploaded file, if any.
Arrive(r) ==
    /\ server = "listening"
    /\ pc[r] = "idle"
    /\ \E attached \in BOOLEAN :
        /\ file' = [file EXCEPT ![r] = IF attached THEN multerPath(r) ELSE 0]
        /\ files' = IF attached THEN files \cup {multerPath(r)} ELSE files
    /\ pc' = [pc EXCEPT ![r] = "received"]
    /\ UNCHANGED <<env, server, apiKey, health, nextJob, jobOf, pollCount,
                   transcriptId, transcriptData, pollUrl, sent, outcome, caught,
                   unlinkFailed, uploads, creations, polls, sample, result, clientVars>>

\* The handler up to its first await: the file check, readFileSync, and the
\* upload call.
Handle(r) ==
    /\ pc[r] = "received"
    /\ IF noFile(file[r])
       THEN /\ sent' = [sent EXCEPT ![r] = Append(sent[r], noFileResponse)]
            /\ outcome' = [outcome EXCEPT ![r] = "noFile"]
            /\ pc' = [pc EXCEPT ![r] = "done"]
            /\ UNCHANGED <<env, server, apiKey, health, files, nextJob, jobOf, file,
                           pollCount, transcriptId, transcriptData, pollUrl, caught,
                           unlinkFailed, uploads, creations, polls, sample, result,
                           clientVars>>
       ELSE \/ \E error \in ReadErrors, unlinkThrows \in BOOLEAN :
                Throw(r, error, "readFailed", unlinkThrows)
            \/ /\ uploads' = [uploads EXCEPT ![r] = uploads[r] + 1]
               /\ pc' = [pc EXCEPT ![r] = "upload"]
               /\ UNCHANGED <<env, server, apiKey, health, files, nextJob, jobOf, file,
                              pollCount, transcriptId, transcriptData, pollUrl, sent,
                              outcome, caught, unlinkFailed, creations, polls, sample, result,
                              clientVars>>

\* POST /upload settles: step 2 asks for the transcription.
UploadSettled(r) ==
    /\ pc[r] = "upload"
    /\ \/ \E error \in ProviderErrors, unlinkThrows \in BOOLEAN :
            Throw(r, error, "uploadFailed", unlinkThrows)
       \/ /\ creations' = [creations EXCEPT ![r] = creations[r] + 1]
          /\ pc' = [pc EXCEPT ![r] = "transcript"]
          /\ UNCHANGED <<env, server, apiKey, health, files, nextJob, jobOf, file,
                         pollCount, transcriptId, transcriptData, pollUrl, sent,
                         outcome, caught, unlinkFailed, uploads, polls, sample, result,
                         clientVars>>

\* POST /transcript settles: the provider has created a job; step 3 starts
\* with pollCount = 0 and makes its first poll.
TranscriptSettled(r) ==
    /\ pc[r] = "transcript"
    /\ \/ \E error \in ProviderErrors, unlinkThrows \in BOOLEAN :
            Throw(r, error, "createFailed", unlinkThrows)
       \/ /\ jobOf' = [jobOf EXCEPT ![r] = nextJob]
          /\ nextJob' = nextJob + 1
          /\ transcriptId' = [transcriptId EXCEPT ![r] = nextJob]
          /\ pollCount' = [pollCount EXCEPT ![r] = 0]
          /\ pollUrl' = [pollUrl EXCEPT ![r] = nextJob]
          /\ polls' = [polls EXCEPT ![r] = polls[r] + 1]
          /\ pc' = [pc EXCEPT ![r] = "poll"]
          /\ UNCHANGED <<env, server, apiKey, health, files, file, transcriptData,
                         sent, outcome, caught, unlinkFailed, uploads, creations, sample,
                         result, clientVars>>

\* GET /transcript/{id} settles: the body of the loop after its await.
PollSettled(r) ==
    /\ pc[r] = "poll"
    /\ \/ \E error \in ProviderErrors, unlinkThrows \in BOOLEAN :
            Throw(r, error, "pollFailed", unlinkThrows)
       \/ \E data \in PollAnswers :
            IF data.status = "completed"
            THEN \E unlinkThrows \in BOOLEAN :
                    AfterLoop(r, pollCount[r], data, "completed", unlinkThrows)
            ELSE IF data.status = "error"
                 THEN \E unlinkThrows \in BOOLEAN :
                         Throw(r, TranscriptionFailed(data.error), "jobError",
                               unlinkThrows)
                 ELSE /\ transcriptData' = [transcriptData EXCEPT ![r] = data]
                      /\ pollCount' = [pollCount EXCEPT ![r] = pollCount[r] + 1]
                      /\ pc' = [pc EXCEPT ![r] = "sleep"]
                      /\ UNCHANGED <<env, server, apiKey, health, files, nextJob,
                                     jobOf, file, transcriptId, pollUrl, sent,
                                     outcome, caught, unlinkFailed, uploads, creations,
                                     polls, sample, result, clientVars>>

\* The 3 s timer fires: the loop condition, then the next poll or the code
\* after the loop.
SleepDone(r) ==
    /\ pc[r] = "sleep"
    /\ IF loopContinues(pollCount[r])
       THEN /\ pollUrl' = [pollUrl EXCEPT ![r] = transcriptIdOf(r)]
            /\ polls' = [polls EXCEPT ![r] = polls[r] + 1]
            /\ pc' = [pc EXCEPT ![r] = "poll"]
            /\ UNCHANGED <<env, server, apiKey, health, files, nextJob, jobOf, file,
                           pollCount, transcriptId, transcriptData, sent, outcome, caught,
                           unlinkFailed, uploads, creations, sample, result,
                           clientVars>>
       ELSE \E unlinkThrows \in BOOLEAN :
                AfterLoop(r, pollCount[r], transcriptData[r], "exhausted", unlinkThrows)

\* One step of request r's handler.
Step(r) ==
    \/ Handle(r)
    \/ UploadSettled(r)
    \/ TranscriptSettled(r)
    \/ PollSettled(r)
    \/ SleepDone(r)

Next ==
    \/ Startup
    \/ Health
    \/ \E r \in Requests : Arrive(r)
    \/ \E r \in Requests : Handle(r)
    \/ \E r \in Requests : UploadSettled(r)
    \/ \E r \in Requests : TranscriptSettled(r)
    \/ \E r \in Requests : PollSettled(r)
    \/ \E r \in Requests : SleepDone(r)

Spec == Init /\ [][Next]_vars

\* The server with a single client: one request, whose handler's steps are
\* those of Spec.
NextSingle ==
    \/ Startup
    \/ Health
    \/ Arrive(1)
    \/ Handle(1)
    \/ UploadSettled(1)
    \/ TranscriptSettled(1)
    \/ PollSettled(1)
    \/ SleepDone(1)

SpecSingle == Init /\ [][NextSingle]_vars

\* ------------------------------------------------ analysis specification
\* Step 4 alone, applied to every completed transcript within the bounds.

Alphabet == {"u", "m", " "}

Texts == UNION {[1..n -> Alphabet] : n \in 0..MaxLen}

Durations == -1..MaxDuration

WordLists ==
    { <<>>,
      << Word(Num(0), Num(4)), Word(Num(30), Num(34)), Word(NotANumber, Num(40)) >> }

\* transcriptData.words built from what lies between consecutive words: a link
\* is the gap from one word's end to the next word's start, in tenths, or says
\* that one of these two timestamps is not a number.
Gap(tenths) == [gap |-> tenths, missing |-> "none"]
NoEnd == [gap |-> 0, missing |-> "end"]
NoStart == [gap |-> 0, missing |-> "start"]

\* The start of word k: every word lasts 0.4, then comes the gap of its link.
RECURSIVE StartOf(_, _)
StartOf(links, k) ==
    IF k = 1 THEN 0 ELSE StartOf(links, k - 1) + 4 + links[k - 1].gap

Timed(links) ==
    [k \in 1..(Len(links) + 1) |->
        Word(IF k > 1 /\ links[k - 1].missing = "start"
                THEN NotANumber ELSE Num(StartOf(links, k)),
             IF k <= Len(links) /\ links[k].missing = "end"
                THEN NotANumber ELSE Num(StartOf(links, k) + 4))]

\* Gaps on both sides of each threshold, in seconds and in milliseconds:
\* -0.5, 0, 2.0, 2.1, 3.5, 100, 100.1, 150, 2000, 2001, 2500.
Links ==
    {Gap(g) : g \in {-5, 0, 20, 21, 35, 1000, 1001, 1500, 20000, 20010, 25000}}
        \cup {NoEnd, NoStart}

LinkLists == UNION {[1..n -> Links] : n \in 0..MaxGaps}

PauseSamples == {Completed(<<>>, -1, Timed(links)) : links \in LinkLists}

\* Transcripts of words a speaker says: lexicon entries, entries in capitals
\* or before a comma, and longer words that contain an entry.
Vocabulary ==
    { <<"I">>,
      <<"l","i","k","e">>,
      <<"L","I","K","E">>,
      <<"i","t">>,
      <<"d","i","s","l","i","k","e">>,
      <<"u","m","b","r","e","l","l","a">>,
      <<"a","l","s","o">>,
      <<"u","m">>,
      <<"U","m",",">>,
      <<"y","o","u">>,
      <<"k","n","o","w">>,
      <<"s","o">> }

\* The words of a phrase with one blank between them.
RECURSIVE Join(_)
Join(phrase) ==
    IF phrase = <<>> THEN <<>>
    ELSE IF Len(phrase) = 1 THEN phrase[1]
         ELSE phrase[1] \o <<" ">> \o Join(Tail(phrase))

Phrases == UNION {[1..n -> Vocabulary] : n \in 0..MaxPhrase}

PhraseSamples == {Completed(Join(phrase), 10, <<>>) : phrase \in Phrases}

\* A speech of n times 'um'.
Ums(n) == Join([k \in 1..n |-> <<"u","m">>])

\* 'um this is a test like really'
TestSpeech ==
    Join(<< <<"u","m">>, <<"t","h","i","s">>, <<"i","s">>, <<"a">>, <<"t","e","s","t">>, <<"l","i","k","e">>, <<"r","e","a","l","l","y">> >>)

\* Word timestamps in milliseconds, every gap either 150 or 2500.
GapLists == UNION {[1..n -> {Gap(1500), Gap(25000)}] : n \in 0..MaxPauses}

SpeechSamples ==
    {Completed(text, 10, Timed(links)) :
        text \in {Ums(n) : n \in 0..MaxFillers} \cup {TestSpeech}, links \in GapLists}

\* A speech of n one-letter words, at every duration.
PacedSamples ==
    {Completed(Join([k \in 1..n |-> <<"a">>]), seconds, <<>>) :
        n \in 0..MaxSpoken, seconds \in Durations}

Samples ==
    {Completed(text, seconds, ws) : text \in Texts, seconds \in Durations, ws \in WordLists}
        \cup PauseSamples
        \cup PhraseSamples
        \cup SpeechSamples
        \cup PacedSamples

InitAnalysis ==
    /\ env = [ASSEMBLYAI_API_KEY |-> [set |-> TRUE, value |-> <<"k", "e", "y">>],
              NODE_ENV |-> "unset"]
    /\ server = "starting"
    /\ apiKey = <<>>
    /\ health = "none"
    /\ Idle
    /\ sample \in Samples
    /\ result = NoAnalysis
    /\ ClientIdle

Analyse ==
    /\ result = NoAnalysis
    /\ result' = analyze(sample)
    /\ UNCHANGED <<env, server, apiKey, health, files, nextJob, jobOf, pc, file,
                   pollCount, transcriptId, transcriptData, pollUrl, sent, outcome,
                   caught, unlinkFailed, uploads, creations, polls, sample, clientVars>>

NextAnalysis == Analyse

SpecAnalysis == InitAnalysis /\ [][NextAnalysis]_vars

\* ------------------------------------------------------ capture client
\* src/client/src/App.js: the record button, the recorder's callbacks and the
\* upload of the recording. One action is one event handler or one segment
\* of an async function between two awaits.

StatusRecording == <<"Recording", ".", ".", ".", " ", "Click", " ", "to", " ", "stop", ".">>
StatusDenied == <<"Microphone", " ", "access", " ", "denied", ".", " ", "Please", " ", "allow", " ", "access", " ", "and", " ", "try", " ", "again", ".">>
StatusProcessing == <<"Processing", " ", "your", " ", "speech", ".", ".", ".", " ", "this", " ", "may", " ", "take", " ", "a", " ", "moment", ".">>
StatusSending == <<"Sending", " ", "audio", " ", "for", " ", "analysis", ".", ".", ".">>
StatusNewRecording == <<"Click", " ", "the", " ", "button", " ", "to", " ", "start", " ", "a", " ", "new", " ", "recording", ".">>

\* What fetch rejects with when the server cannot be reached (Chrome's and
\* Firefox's text).
FetchErrors ==
    { <<"Failed", " ", "to", " ", "fetch">>,
      <<"NetworkError", " ", "when", " ", "attempting", " ", "to", " ", "fetch", " ", "resource", ".">> }

\* The `error` field of the server's 400 and 500 bodies; <<>> when the body
\* is not JSON or has no such field.
ServerErrors ==
    { <<"No", " ", "file", " ", "uploaded", ".">>,
      <<"Speech", " ", "transcription", " ", "failed", ".", " ", "Please", " ", "try", " ", "again", ".">>,
      <<"Analysis", " ", "timed", " ", "out", ".", " ", "Please", " ", "try", " ", "with", " ", "a", " ", "shorter", " ", "recording", ".">>,
      <<"API", " ", "authentication", " ", "failed", ".", " ", "Please", " ", "check", " ", "server", " ", "configuration", ".">>,
      <<"An", " ", "error", " ", "occurred", " ", "during", " ", "analysis", ".">>,
      <<>> }

Responses ==
    {[ok |-> TRUE, status |-> 200, error |-> <<>>]}
        \cup {[ok |-> FALSE, status |-> 500, error |-> e] : e \in ServerErrors}

\* errorData.error || `Server error: ${response.status}`
thrownMessage(resp) ==
    IF resp.error # <<>> THEN resp.error
    ELSE <<"Server", " ", "error", ":", " ">> \o <<"500">>

\* The catch block of sendAudioToServer: the status text for an error message.
clientErrorMessage(message) ==
    IF includes(message, <<"Failed", " ", "to", " ", "fetch">>)
    THEN <<"Cannot", " ", "connect", " ", "to", " ", "server", ".", " ", "Please", " ", "make", " ", "sure", " ", "the", " ", "server", " ", "is", " ", "running", ".">>
    ELSE IF includes(message, <<"API", " ", "authentication", " ", "failed">>)
    THEN <<"Server", " ", "configuration", " ", "error", ".", " ", "Please", " ", "contact", " ", "support", ".">>
    ELSE IF includes(message, <<"transcription", " ", "failed">>)
    THEN <<"Speech", " ", "recognition", " ", "failed", ".", " ", "Please", " ", "try", " ", "speaking", " ", "more", " ", "clearly", ".">>
    ELSE IF includes(message, <<"timed", " ", "out">>)
    THEN <<"Analysis", " ", "timed", " ", "out", ".", " ", "Please", " ", "try", " ", "with", " ", "a", " ", "shorter", " ", "recording", ".">>
    ELSE IF message # <<>> THEN message
    ELSE <<"Error", " ", "during", " ", "analysis", ".", " ", "Please", " ", "try", " ", "again", ".">>

\* startRecording up to its await: the previous results are cleared, the
\* timer is reset and getUserMedia is called.
startRecording ==
    \E t \in Takes :
        /\ take[t] = "none"
        /\ \A u \in Takes : u < t => take[u] # "none"
        /\ analysisResult' = 0
        /\ recordingTime' = 0
        /\ take' = [take EXCEPT ![t] = "getUserMedia"]
        /\ UNCHANGED <<isRecording, statusText, mediaRecorderRef, response>>

\* stopRecording: the current recorder is asked to stop; its stop event is
\* dispatched later.
stopRecording ==
    IF mediaRecorderRef # 0
    THEN /\ take[mediaRecorderRef] = "recording"
         /\ take' = [take EXCEPT ![mediaRecorderRef] = "stopping"]
         /\ isRecording' = FALSE
         /\ statusText' = StatusProcessing
         /\ UNCHANGED <<analysisResult, recordingTime, mediaRecorderRef, response>>
    ELSE UNCHANGED clientVars

\* handleRecordButtonClick
Click ==
    /\ IF isRecording THEN stopRecording ELSE startRecording
    /\ UNCHANGED serverVars

\* getUserMedia settles: startRecording after its await, or its catch block.
GetUserMediaSettled(t) ==
    /\ take[t] = "getUserMedia"
    /\ \/ /\ mediaRecorderRef' = t
          /\ take' = [take EXCEPT ![t] = "recording"]
          /\ isRecording' = TRUE
          /\ statusText' = StatusRecording
       \/ /\ take' = [take EXCEPT ![t] = "denied"]
          /\ statusText' = StatusDenied
          /\ UNCHANGED <<isRecording, mediaRecorderRef>>
    /\ UNCHANGED <<analysisResult, recordingTime, response>>
    /\ UNCHANGED serverVars

\* mediaRecorder.onstop: sendAudioToServer up to await fetch.
OnStop(t) ==
    /\ take[t] = "stopping"
    /\ statusText' = StatusSending
    /\ take' = [take EXCEPT ![t] = "fetch"]
    /\ UNCHANGED <<isRecording, analysisResult, recordingTime, mediaRecorderRef, response>>
    /\ UNCHANGED serverVars

\* fetch settles: it rejects (catch block), or resolves and the body is
\* awaited.
FetchSettled(t) ==
    /\ take[t] = "fetch"
    /\ \/ \E message \in FetchErrors :
            /\ statusText' = clientErrorMessage(message)
            /\ take' = [take EXCEPT ![t] = "done"]
            /\ UNCHANGED response
       \/ \E resp \in Responses :
            /\ response' = [response EXCEPT ![t] = resp]
            /\ take' = [take EXCEPT ![t] = "json"]
            /\ UNCHANGED statusText
    /\ UNCHANGED <<isRecording, analysisResult, recordingTime, mediaRecorderRef>>
    /\ UNCHANGED serverVars

\* response.json() settles: the result is shown, or the error is thrown and
\* caught.
JsonSettled(t) ==
    /\ take[t] = "json"
    /\ IF response[t].ok
       THEN /\ analysisResult' = t
            /\ statusText' = StatusNewRecording
       ELSE /\ statusText' = clientErrorMessage(thrownMessage(response[t]))
            /\ UNCHANGED analysisResult
    /\ take' = [take EXCEPT ![t] = "done"]
    /\ UNCHANGED <<isRecording, recordingTime, mediaRecorderRef, response>>
    /\ UNCHANGED serverVars

\* The interval of the timer effect, while recording.
Tick ==
    /\ isRecording
    /\ recordingTime < MaxTime
    /\ recordingTime' = recordingTime + 1
    /\ UNCHANGED <<isRecording, statusText, analysisResult, mediaRecorderRef, take, response>>
    /\ UNCHANGED serverVars

InitClient ==
    /\ env = [ASSEMBLYAI_API_KEY |-> [set |-> TRUE, value |-> <<"k", "e", "y">>],
              NODE_ENV |-> "unset"]
    /\ server = "starting"
    /\ apiKey = <<>>
    /\ health = "none"
    /\ Idle
    /\ sample = NoData
    /\ result = NoAnalysis
    /\ ClientIdle

NextClient ==
    \/ Click
    \/ Tick
    \/ \E t \in Takes : GetUserMediaSettled(t)
    \/ \E t \in Takes : OnStop(t)
    \/ \E t \in Takes : FetchSettled(t)
    \/ \E t \in Takes : JsonSettled(t)

SpecClient == InitClient /\ [][NextClient]_vars

\* ---------------------------------------------------------------- claims

Statuses(r) == {sent[r][i].status : i \in 1..Len(sent[r])}

HasFile(r) == file[r] # 0

Finished(r) == pc[r] = "done"

InFlight(r) == pc[r] \in {"received", "upload", "transcript", "poll", "sleep"}

\* The message of the one 500 response request r was sent.
SentError(r, message) ==
    /\ Len(sent[r]) = 1
    /\ sent[r][1].status = 500
    /\ sent[r][1].body.error = message

FileGone(r) == file[r] \notin files

\* C1: a 200 response is sent only to a request one of whose polls returned
\* status 'completed'; a request whose polls were exhausted on queued or
\* processing, or whose job was reported in error, is never sent a 200.
C1_SuccessOnlyWhenCompleted ==
    \A r \in Requests : 200 \in Statuses(r) => outcome[r] = "completed"

C1_Witness ==
    \E r \in Requests : Finished(r) /\ outcome[r] = "completed" /\ Statuses(r) = {200}

\* C2: whichever way the handler of a request with a file ends, the finally
\* block has run: unless unlinkSync itself threw, the temporary file is gone
\* once the handler has finished.
C2_FileDeletedOnEveryExit ==
    \A r \in Requests :
        Finished(r) /\ HasFile(r) /\ ~unlinkFailed[r] => FileGone(r)

C2_Witness ==
    /\ Finished(1) /\ outcome[1] = "exhausted" /\ ~unlinkFailed[1] /\ FileGone(1)
    /\ Finished(2) /\ outcome[2] = "pollFailed" /\ ~unlinkFailed[2] /\ FileGone(2)

TimeoutMessage == "Analysis timed out. Please try with a shorter recording."

TimedOutRequest(r) ==
    /\ Finished(r)
    /\ outcome[r] = "exhausted"
    /\ SentError(r, TimeoutMessage)
    /\ unlinkFailed[r] \/ FileGone(r)

\* C3: a request whose 20 polls all returned a status that is neither
\* 'completed' nor 'error' makes no 21st poll: after its 20th wait its handler
\* can step, and that step ends it with the 500 timeout response and the file
\* deleted (unless unlinkSync threw); no request times out in any other way.
C3_TimeoutAfterTwentyPolls ==
    /\ [](\A r \in Requests :
            /\ polls[r] <= maxPolls
            /\ (pc[r] = "sleep" /\ polls[r] = maxPolls => ENABLED SleepDone(r)))
    /\ [][\A r \in Requests :
            /\ (pc[r] = "sleep" /\ polls[r] = maxPolls /\ pc'[r] # "sleep"
                    => TimedOutRequest(r)')
            /\ (outcome[r] # "exhausted" /\ outcome'[r] = "exhausted"
                    => pc[r] = "sleep" /\ polls[r] = maxPolls)]_vars

C3_Witness ==
    \E r \in Requests : TimedOutRequest(r) /\ FileGone(r)

\* C4: a request without a file is answered 400 {error: 'No file uploaded.'}
\* by the handler's first step and makes no provider call.
C4_NoFileNoProviderCall ==
    \A r \in Requests :
        pc[r] # "idle" /\ ~HasFile(r) =>
            /\ pc[r] \in {"received", "done"}
            /\ uploads[r] = 0 /\ creations[r] = 0 /\ polls[r] = 0 /\ jobOf[r] = 0
            /\ sent[r] = IF Finished(r) THEN <<noFileResponse>> ELSE <<>>

C4_Witness ==
    \E r \in Requests : Finished(r) /\ ~HasFile(r) /\ sent[r] = <<noFileResponse>>

\* The message the claim assigns to each kind of failure.
MessageOfKind(how, error) ==
    IF how = "jobError" THEN "Speech transcription failed. Please try again."
    ELSE IF how = "exhausted" THEN TimeoutMessage
    ELSE IF how \in {"uploadFailed", "createFailed", "pollFailed"} /\ error.status = 401
         THEN "API authentication failed. Please check server configuration."
         ELSE "An error occurred during analysis."

\* C5: every failure of a request with a file is answered 500 with the
\* message of its kind: job error, poll budget exhausted, provider call
\* rejected with 401, and the generic message for any other failure.
C5_MessageByErrorKind ==
    \A r \in Requests :
        Finished(r) /\ HasFile(r) /\ outcome[r] # "completed" =>
            SentError(r, MessageOfKind(outcome[r], caught[r]))

\* The steps a handler has left at most: the loop makes 20 polls and 20
\* waits, after the upload and the job creation.
Remaining(r) ==
    CASE pc[r] = "received"   -> 2 * maxPolls + 4
      [] pc[r] = "upload"     -> 2 * maxPolls + 3
      [] pc[r] = "transcript" -> 2 * maxPolls + 2
      [] pc[r] = "poll"       -> 2 * (maxPolls - pollCount[r]) + 1
      [] pc[r] = "sleep"      -> 2 * (maxPolls - pollCount[r]) + 2
      [] OTHER                -> 0

\* C6: every request is sent exactly one response, with status 200, 400 or
\* 500: never two, and exactly one when the handler has returned. The handler
\* does return when every call it awaits settles: while it runs it can always
\* take its next step, and each step leaves it fewer steps to take.
C6_ExactlyOneResponse ==
    /\ [](\A r \in Requests :
            /\ Len(sent[r]) <= 1
            /\ Statuses(r) \subseteq {200, 400, 500}
            /\ (Finished(r) => Len(sent[r]) = 1)
            /\ (InFlight(r) => Remaining(r) > 0 /\ ENABLED Step(r)))
    /\ [][\A r \in Requests :
            InFlight(r) /\ pc'[r] # pc[r] => Remaining(r)' < Remaining(r)]_vars

C6_Witness ==
    \E r \in Requests :
        Finished(r) /\ outcome[r] = "createFailed" /\ Len(sent[r]) = 1 /\ Statuses(r) = {500}

\* C7: a request makes at most one upload call and one job creation call, in
\* the order upload, creation, polls; every poll asks for the job the
\* provider created for this request; nothing is tried again after a failure,
\* and once the handler has returned it makes no further call.
C7_OneJobPerRequest ==
    /\ [](\A r \in Requests :
            /\ uploads[r] <= 1 /\ creations[r] <= uploads[r]
            /\ (jobOf[r] # 0 => creations[r] = 1)
            /\ (polls[r] > 0 => jobOf[r] # 0)
            /\ (pc[r] = "poll" => polls[r] > 0 /\ pollUrl[r] = jobOf[r])
            /\ (Finished(r) /\ outcome[r] \in {"readFailed", "uploadFailed"}
                    => creations[r] = 0 /\ jobOf[r] = 0))
    /\ [][\A r \in Requests :
            /\ (Finished(r) => /\ uploads'[r] = uploads[r]
                               /\ creations'[r] = creations[r]
                               /\ polls'[r] = polls[r]
                               /\ jobOf'[r] = jobOf[r])
            /\ (caught'[r] # caught[r] => Finished(r)')]_vars

C7_Witness ==
    \E r \in Requests :
        /\ pc[r] = "poll" /\ polls[r] = 3 /\ uploads[r] = 1 /\ creations[r] = 1
        /\ pollUrl[r] = jobOf[r] /\ nextJob > jobOf[r] + 1

\* The part of the state that belongs to request r.
Own(r) ==
    <<pc[r], file[r], pollCount[r], transcriptId[r], transcriptData[r], pollUrl[r],
      sent[r], outcome[r], caught[r], unlinkFailed[r], uploads[r], creations[r],
      polls[r], jobOf[r], file[r] \in files>>

\* C8: concurrent requests have temporary paths and jobs of their own; a step
\* of one request changes nothing that belongs to another (its file, its
\* locals, its response), so each is answered as if it ran alone; and a
\* request waiting between polls keeps no other request from taking its step.
C8_RequestsAreIndependent ==
    /\ [](\A r, q \in Requests :
            r # q =>
                /\ (HasFile(r) /\ HasFile(q) => file[r] # file[q])
                /\ (jobOf[r] # 0 => jobOf[r] # jobOf[q])
                /\ (pc[r] = "sleep" /\ InFlight(q) => ENABLED Step(q)))
    /\ [][\A r \in Requests : pc'[r] = pc[r] => Own(r)' = Own(r)]_vars

C8_Witness ==
    /\ Finished(1) /\ HasFile(1) /\ FileGone(1) /\ outcome[1] = "completed"
    /\ pc[2] = "sleep" /\ pollCount[2] = 2 /\ file[2] \in files

Blank(variable) == ~variable.set \/ \A i \in 1..Len(variable.value) : IsSpace(variable.value[i])

\* C9: with the API key unset, empty or blank the process exits at startup
\* and never listens; no request is served and no /health answer is given
\* without a key, so every /health answer says apiKey 'Set'.
C9_NoServingWithoutKey ==
    /\ Blank(env.ASSEMBLYAI_API_KEY) =>
        /\ server \in {"starting", "exited"}
        /\ health = "none"
        /\ \A r \in Requests : pc[r] = "idle"
    /\ server = "listening" => apiKey # <<>> /\ ~IsSpace(Head(apiKey))
    /\ health \in {"none", "Set"}

C9_Witness ==
    /\ server = "exited"
    /\ env.ASSEMBLYAI_API_KEY.set
    /\ env.ASSEMBLYAI_API_KEY.value # <<>>

\* The words of a text counted without splitting it: the positions where a
\* word starts.
WordStarts(text) ==
    {i \in 1..Len(text) : ~IsSpace(text[i]) /\ (i = 1 \/ IsSpace(text[i - 1]))}

\* The text with every blank doubled.
RECURSIVE Widened(_)
Widened(text) ==
    IF text = <<>> THEN <<>>
    ELSE (IF IsSpace(Head(text)) THEN <<Head(text), Head(text)>> ELSE <<Head(text)>>)
            \o Widened(Tail(text))

\* C10: wordsPerMinute is a non-negative integer; it is 0 when the duration
\* is 0 and otherwise the integer nearest to wordCount * 60 / seconds (a tie
\* going up); wordCount is the number of blank-separated words and stays the
\* same when every blank is doubled.
C10_WordsPerMinute ==
    result # NoAnalysis =>
        LET n       == Cardinality(WordStarts(sample.text))
            seconds == sample.audio_duration
            wpm     == result.wordsPerMinute
        IN  /\ result.wordCount = n
            /\ wordCount(Widened(sample.text)) = n
            /\ wpm \in Nat
            /\ seconds <= 0 => wpm = 0
            /\ seconds > 0 =>
                /\ 2 * seconds * wpm <= 120 * n + seconds
                /\ 120 * n + seconds < 2 * seconds * (wpm + 1)

C10_Witness ==
    /\ result # NoAnalysis
    /\ sample.text = <<" ", "u", "m", " ", " ">>
    /\ sample.audio_duration = 8
    /\ result.wordsPerMinute = 8

\* A gap in seconds as the claim reads it: above 100 it is milliseconds.
Normalized(gapTenths) ==
    IF gapTenths > 100 * 10 THEN Frac(gapTenths, 10 * 1000) ELSE Frac(gapTenths, 10)

\* The adjacent pairs of ws with both timestamps numeric and a long gap.
LongPairs(ws) ==
    {i \in 2..Len(ws) :
        /\ ws[i - 1].end.numeric /\ ws[i].start.numeric
        /\ LET seconds == Normalized(ws[i].start.tenths - ws[i - 1].end.tenths)
           IN  seconds.num > 2 * seconds.den}

OnePair(gapTenths) == Timed(<<Gap(gapTenths)>>)

\* C11: longPauseCount is the number of adjacent word pairs whose gap,
\* current start minus previous end, is above 2.0 once a gap above 100 is
\* divided by 1000; a pair with a timestamp that is not a number is not
\* counted. A gap of 150 is not long, gaps of 2500 and of 3.5 are.
C11_LongPauseCount ==
    result # NoAnalysis =>
        /\ result.longPauseCount = Cardinality(LongPairs(sample.words))
        /\ sample.words = OnePair(1500) => result.longPauseCount = 0
        /\ sample.words \in {OnePair(25000), OnePair(35)} => result.longPauseCount = 1
        /\ sample.words \in {Timed(<<NoEnd>>), Timed(<<NoStart>>)} => result.longPauseCount = 0

C11_Witness ==
    /\ result # NoAnalysis
    /\ sample.words = Timed(<<NoStart, Gap(25000)>>)
    /\ result.longPauseCount = 1

\* The letter c as it may be written: in lower case or in capitals.
Cased(c) == {c} \cup {Upper[i] : i \in {j \in 1..Len(Lower) : Lower[j] = c}}

\* Where entry stands in text as a whole word or phrase, in any case: the
\* character before it and the character after it, if any, are not of a word.
Occurrences(text, entry) ==
    {i \in 1..(Len(text) - Len(entry) + 1) :
        /\ \A k \in 1..Len(entry) : text[i + k - 1] \in Cased(entry[k])
        /\ i = 1 \/ ~IsWordChar(text[i - 1])
        /\ i + Len(entry) > Len(text) \/ ~IsWordChar(text[i + Len(entry)])}

\* Two occurrences of one entry never share a character.
Apart(positions, length) ==
    \A i, j \in positions : i < j => i + length <= j

RECURSIVE OccurrencesOfFirst(_, _)
OccurrencesOfFirst(text, k) ==
    IF k = 0 THEN 0
    ELSE OccurrencesOfFirst(text, k - 1)
            + Cardinality(Occurrences(text, fillerWordsList[k]))

SaidOnly(phrase) == sample.text = Join(phrase)

\* C12: fillerWordCount is the sum, over the entries of the lexicon, of the
\* entry's occurrences as a whole word or phrase in any case, none of them
\* overlapping; 'I like it' and 'I LIKE it' count 1; 'dislike', 'umbrella'
\* and 'also' count 0.
C12_FillerWordCount ==
    result # NoAnalysis =>
        /\ result.fillerWordCount = OccurrencesOfFirst(sample.text, Len(fillerWordsList))
        /\ \A k \in 1..Len(fillerWordsList) :
              Apart(Occurrences(sample.text, fillerWordsList[k]), Len(fillerWordsList[k]))
        /\ SaidOnly(<<<<"I">>, <<"l","i","k","e">>, <<"i","t">>>>) => result.fillerWordCount = 1
        /\ SaidOnly(<<<<"I">>, <<"L","I","K","E">>, <<"i","t">>>>) => result.fillerWordCount = 1
        /\ SaidOnly(<<<<"d","i","s","l","i","k","e">>>>) => result.fillerWordCount = 0
        /\ SaidOnly(<<<<"u","m","b","r","e","l","l","a">>>>) => result.fillerWordCount = 0
        /\ SaidOnly(<<<<"a","l","s","o">>>>) => result.fillerWordCount = 0

C12_Witness ==
    /\ result # NoAnalysis
    /\ SaidOnly(<<<<"d","i","s","l","i","k","e">>, <<"L","I","K","E">>, <<"U","m",",">>>>)
    /\ result.fillerWordCount = 2

PauseHeavy(count) ==
    [text  |-> "You paused for over 2 seconds ${longPauseCount} times. Try to make your transitions between sentences smoother.",
     count |-> count]

FillerHeavy(count) ==
    [text  |-> "You used ${fillerWordCount} filler words. Practice your speech to reduce reliance on words like 'um' and 'like'.",
     count |-> count]

SmoothFlow ==
    [text  |-> "Great job on maintaining a smooth flow with minimal long pauses!",
     count |-> 0]

\* C13: the pause check comes first: more than 3 long pauses give the
\* pause-heavy message with their count, whatever the number of fillers (4
\* pauses and 10 fillers included); otherwise more than 5 fillers give the
\* filler-heavy message with their count; otherwise the positive message.
\* Exactly 3 pauses and exactly 5 fillers trigger nothing.
C13_PauseCheckFirst ==
    result # NoAnalysis =>
        LET pauses  == result.longPauseCount
            fillers == result.fillerWordCount
        IN  /\ pauses > 3 => result.pauses = PauseHeavy(pauses)
            /\ pauses <= 3 /\ fillers > 5 => result.pauses = FillerHeavy(fillers)
            /\ pauses <= 3 /\ fillers <= 5 => result.pauses = SmoothFlow
            /\ pauses = 4 /\ fillers = 10 => result.pauses = PauseHeavy(4)
            /\ pauses = 3 /\ fillers = 5 => result.pauses = SmoothFlow
            /\ pauses = 3 /\ fillers = 6 => result.pauses = FillerHeavy(6)
            /\ successResponse(sample).body.suggestions.pauses = result.pauses

C13_Witness ==
    /\ result # NoAnalysis
    /\ result.longPauseCount = 4
    /\ result.fillerWordCount = 10
    /\ result.pauses = PauseHeavy(4)

\* C14: the transcript 'um this is a test like really' of 10 seconds, with
\* seven timed words exactly two of whose gaps are above 2 seconds, gives
\* wordCount 7, wordsPerMinute 42, fillerWordCount 2, longPauseCount 2 and
\* the positive pause/filler message, in step 4 and in the 200 response.
C14_EndToEnd ==
    /\ result # NoAnalysis
    /\ sample.text = TestSpeech
    /\ sample.audio_duration = 10
    /\ Len(sample.words) = 7
    /\ Cardinality(LongPairs(sample.words)) = 2
    => /\ result.wordCount = 7
       /\ result.wordsPerMinute = 42
       /\ result.fillerWordCount = 2
       /\ result.longPauseCount = 2
       /\ result.pauses = SmoothFlow
       /\ LET answer == successResponse(sample)
          IN  /\ answer.status = 200
              /\ answer.body.transcript = TestSpeech
              /\ answer.body.wordsPerMinute = 42
              /\ answer.body.fillerWordCount = 2
              /\ answer.body.suggestions.pauses = SmoothFlow

C14_Witness ==
    /\ result # NoAnalysis
    /\ sample.text = TestSpeech
    /\ sample.audio_duration = 10
    /\ sample.words = Timed(<<Gap(1500), Gap(25000), Gap(1500), Gap(1500), Gap(25000), Gap(1500)>>)
    /\ result.wordsPerMinute = 42
    /\ result.longPauseCount = 2

TooFast == "Your pace is quite fast. Try speaking a bit more slowly to ensure your audience can follow along."
TooSlow == "Your pace is a little slow. Try speaking a bit faster to keep your audience engaged."
Excellent == "Your pacing is excellent! It's right in the ideal range for presentations."

\* C17: the pacing suggestion is the too-fast message when wordsPerMinute is
\* above 160, the too-slow message when it is below 130 and the excellent
\* message otherwise: 130 and 160 are excellent, and 0 (a zero duration) is
\* too slow.
C17_PacingPartition ==
    result # NoAnalysis =>
        LET wpm == result.wordsPerMinute
        IN  /\ result.pacing \in {TooFast, TooSlow, Excellent}
            /\ result.pacing = TooFast <=> wpm > 160
            /\ result.pacing = TooSlow <=> wpm < 130
            /\ result.pacing = Excellent <=> wpm >= 130 /\ wpm <= 160
            /\ wpm \in {130, 160} => result.pacing = Excellent
            /\ sample.audio_duration = 0 => wpm = 0 /\ result.pacing = TooSlow
            /\ successResponse(sample).body.suggestions.pacing = result.pacing

C17_Witness ==
    /\ result # NoAnalysis
    /\ sample.audio_duration = 6
    /\ result.wordCount = 16
    /\ result.wordsPerMinute = 160
    /\ result.pacing = Excellent

FailedMessage == "Speech transcription failed. Please try again."

\* Request r's poll is in flight and its handler ends with `how` and a
\* response of status `status` if the answer is of that kind.
CanEnd(r, how, status) ==
    ENABLED (/\ PollSettled(r)
             /\ outcome'[r] = how
             /\ Len(sent'[r]) = 1
             /\ sent'[r][1].status = status)

\* C15: a request makes at most 20 polls, each but the first after one wait;
\* whichever poll, the 20th included, is answered 'completed', the request
\* succeeds with 200, and whichever is answered 'error', it fails with the
\* transcription-failed message; either step ends the handler at once, and
\* a handler that has ended polls and waits no more.
C15_PollingStopsAtTerminalStatus ==
    /\ [](\A r \in Requests :
            /\ polls[r] <= maxPolls
            /\ (pc[r] = "poll" =>
                    /\ polls[r] \in 1..maxPolls
                    /\ pollCount[r] = polls[r] - 1
                    /\ CanEnd(r, "completed", 200)
                    /\ CanEnd(r, "jobError", 500))
            /\ (pc[r] = "sleep" => pollCount[r] = polls[r]))
    /\ [][\A r \in Requests :
            /\ (polls'[r] > polls[r] =>
                    /\ polls'[r] = polls[r] + 1
                    /\ pc'[r] = "poll"
                    /\ (polls[r] = 0 => pc[r] = "transcript")
                    /\ (polls[r] > 0 => pc[r] = "sleep"))
            /\ (pc[r] # "sleep" /\ pc'[r] = "sleep" => pc[r] = "poll")
            /\ (outcome[r] # "completed" /\ outcome'[r] = "completed" =>
                    /\ pc[r] = "poll" /\ Finished(r)'
                    /\ sent'[r] # <<>> /\ Statuses(r)' = {200})
            /\ (outcome[r] # "jobError" /\ outcome'[r] = "jobError" =>
                    /\ pc[r] = "poll" /\ Finished(r)'
                    /\ SentError(r, FailedMessage)'
                    /\ \E detail \in JobErrors : caught'[r] = TranscriptionFailed(detail))
            /\ (Finished(r) => pc'[r] = pc[r] /\ polls'[r] = polls[r])]_vars

C15_Witness ==
    \E r \in Requests :
        /\ pc[r] = "poll"
        /\ polls[r] = maxPolls
        /\ pollCount[r] = maxPolls - 1
        /\ CanEnd(r, "completed", 200)

\* Request r's handler can end now with outcome `how`, the deletion of its
\* file succeeding, having sent exactly `responses`.
CanEndDeleting(r, how, responses) ==
    ENABLED (/\ Step(r)
             /\ Finished(r)'
             /\ ~unlinkFailed'[r]
             /\ FileGone(r)'
             /\ outcome'[r] = how
             /\ sent'[r] = responses)

\* C16: when unlinkSync throws in the finally block the handler still
\* returns, the file stays, and the request has been sent one response, the
\* very response (status and body) it is sent when the deletion succeeds;
\* nothing is sent after the handler has returned.
C16_DeletionFailureAbsorbed ==
    /\ [](\A r \in Requests : unlinkFailed[r] =>
            Finished(r) /\ Len(sent[r]) = 1 /\ file[r] \in files)
    /\ [][\A r \in Requests :
            /\ (~unlinkFailed[r] /\ unlinkFailed'[r] =>
                    \E how \in {outcome'[r]}, responses \in {sent'[r]} :
                        CanEndDeleting(r, how, responses))
            /\ (Finished(r) => sent'[r] = sent[r])]_vars

C16_Witness ==
    /\ Finished(1) /\ unlinkFailed[1] /\ file[1] \in files
    /\ outcome[1] = "completed" /\ Len(sent[1]) = 1 /\ Statuses(1) = {200}

UserMessages ==
    { "Speech transcription failed. Please try again.",
      "Analysis timed out. Please try with a shorter recording.",
      "API authentication failed. Please check server configuration.",
      "An error occurred during analysis." }

\* C18: every 500 response has the user-facing 'error' message; in production
\* mode it has nothing else; a 'details' field, where there is one, is the
\* raw message of the error caught, and the mode is then not production.
C18_NoDetailsInProduction ==
    \A r \in Requests : \A i \in 1..Len(sent[r]) :
        sent[r][i].status = 500 =>
            LET body == sent[r][i].body
            IN  /\ "error" \in DOMAIN body
                /\ body.error \in UserMessages
                /\ env.NODE_ENV = "production" => DOMAIN body = {"error"}
                /\ "details" \in DOMAIN body =>
                        /\ env.NODE_ENV # "production"
                        /\ body.details = caught[r].message

C18_Witness ==
    /\ env.NODE_ENV = "production"
    /\ \E r \in Requests :
          /\ Finished(r) /\ outcome[r] = "uploadFailed"
          /\ Statuses(r) = {500}
          /\ DOMAIN sent[r][1].body = {"error"}

\* C19: the timeout message is sent only to a request whose 20 polls all
\* returned a status that is not terminal, and the transcription-failed
\* message only to a request one of whose polls returned 'error'; a failure
\* to read the file, to upload, to create the job or to reach the provider
\* for a poll is reported with neither, whatever its error says.
C19_SpecificMessagesOnlyForTheirKind ==
    \A r \in Requests :
        Finished(r) =>
            /\ SentError(r, TimeoutMessage) => outcome[r] = "exhausted"
            /\ SentError(r, FailedMessage) => outcome[r] = "jobError"
            /\ outcome[r] \in {"readFailed", "uploadFailed", "createFailed", "pollFailed"} =>
                    /\ Len(sent[r]) = 1
                    /\ sent[r][1].body.error \notin {TimeoutMessage, FailedMessage}

\* C20: in the capture client, while isRecording is true analysisResult is
\* null and the status text is 'Recording... Click to stop.', also when a
\* callback or the response of an earlier recording comes in after the new
\* recording has started.
C20_NothingStaleWhileRecording ==
    isRecording => analysisResult = 0 /\ statusText = StatusRecording

====
